---- MODULE Spec2Model ----
(***************************************************************************)
(* Devcon registration backend: users, participants, teams, payments and   *)
(* check-ins behind role-gated request handlers.  A handler is an operator *)
(* from the database and the request to its outcome, and its action        *)
(* applies that outcome.  A handler that reads the database and writes it  *)
(* in a later commit is split at that point, so that two requests can      *)
(* interleave between the read and the write.                              *)
(***************************************************************************)
EXTENDS Integers, Sequences, FiniteSets, Bags, TLC

\* ---------------------------------------------------------------- bounds
MaxParticipants == 3   \* registrations that create a participant
MaxInflight == 2       \* requests between their read and their write
MaxClock == 2          \* datetime.now() stamps taken in one behaviour
NumCodes == 2          \* size of the space generate_team_code draws from
MaxUsers == 4          \* rows of the users table

\* Settings.TEAM_MAX_SIZE is read from the environment (default 5); the
\* model runs with a small limit.
TEAM_MAX_SIZE == 2

NULL == 0              \* Python None / SQL NULL of an id (ids start at 1)
NONE == ""             \* Python None of a string (falsy, like the empty string)

\* ----------------------------------------------------------------- enums
PARTICIPANT == "participant"
AMBASSADOR == "ambassador"
REGISTRATION_TEAM == "registration_team"
ADMIN == "admin"
UserRole == {PARTICIPANT, AMBASSADOR, REGISTRATION_TEAM, ADMIN}

ONLINE == "online"
CASH == "cash"
PaymentMethod == {ONLINE, CASH}

\* payment_method of a request body is a str: the two documented values,
\* the name of an enum member, and a string that names no method
MethodInputs == {ONLINE, CASH, "ONLINE", "card"}

PENDING == "pending"
VERIFIED == "verified"
REJECTED == "rejected"
PENDING_CASH == "pending_cash"
PaymentStatus == {PENDING, VERIFIED, REJECTED, PENDING_CASH}

\* HTTP status codes of the responses
OK == 200
BAD_REQUEST == 400
FORBIDDEN == 403
NOT_FOUND == 404
SERVER_ERROR == 500

TeamNames == {"alpha", "beta"}    \* team_name inputs
TeamCodes == 1..NumCodes          \* the codes generate_team_code can draw
EventTypes == {"opening_ceremony", "social_night"}

VARIABLES
    users,          \* users table: user id -> role
    participants,   \* participants table: id -> [user_id, team_id, is_team_lead]
    teams,          \* teams table: id -> [name, code]
    payments,       \* payments table: id -> Payment row
    checkins,       \* checkins table, a bag of [participant_id, event_type]
    inflight,       \* requests that have read and not yet written
    clock,          \* datetime.now()
    response,       \* the status code of the response most recently sent
    notice,         \* the ticket and the email of the request most recently answered
    smtp_up         \* whether aiosmtplib.send gets the message through

vars == <<users, participants, teams, payments, checkins, inflight, clock, response,
          notice, smtp_up>>

\* ------------------------------------------------- outcomes of handlers
\* A handler is a function of the database and its inputs to an outcome:
\* the tables as it leaves them, the status code it answers with, whether
\* it stamped datetime.now(), the request it leaves in flight when it has
\* read and not yet written (it has not answered then), the participant it
\* called generate_qr_code for (NULL for none), the email it handed to
\* email_service (NONE for none) and whether that email went out.
Answer(result) ==
    [response |-> result,
     users |-> users, participants |-> participants, teams |-> teams,
     payments |-> payments, checkins |-> checkins,
     stamped |-> FALSE, started |-> {},
     qr |-> NULL, email |-> NONE, delivered |-> FALSE]

\* the emails of email_service
MAIL_PENDING == "registration pending"
MAIL_VERIFIED == "payment verified"
MAIL_REJECTED == "payment rejected"

\* the ticket and the email an outcome leaves behind
NoticeOf(o) == [qr |-> o.qr, email |-> o.email, delivered |-> o.delivered]

\* a request between its read phase and its write phase
Request(kind, op, by, pid, team, method) ==
    [kind |-> kind, op |-> op, by |-> by, pid |-> pid, team |-> team, method |-> method]

Pending(r) == [Answer(OK) EXCEPT !.started = {r}]

now == clock + 1

\* the tables of two outcomes agree
SameTables(o1, o2) ==
    /\ o1.users = o2.users
    /\ o1.participants = o2.participants
    /\ o1.teams = o2.teams
    /\ o1.payments = o2.payments
    /\ o1.checkins = o2.checkins

\* the outcome left the database as it found it
NoEffect(o) ==
    /\ SameTables(o, Answer(OK))
    /\ ~o.stamped
    /\ o.started = {}
    /\ o.qr = NULL
    /\ o.email = NONE

\* The step of a handler with outcome o; `done` are the in-flight requests
\* it completes.
Apply(o, done) ==
    /\ o.stamped => clock < MaxClock
    /\ o.started # {} => Cardinality(inflight) < MaxInflight
    /\ users' = o.users
    /\ participants' = o.participants
    /\ teams' = o.teams
    /\ payments' = o.payments
    /\ checkins' = o.checkins
    /\ clock' = IF o.stamped THEN now ELSE clock
    /\ inflight' = (inflight \ done) \cup o.started
    /\ response' = IF o.started # {} THEN response ELSE o.response
    /\ notice' = IF o.started # {} THEN notice ELSE NoticeOf(o)
    /\ smtp_up' = smtp_up

\* ------------------------------------------------------ auth/dependencies
\* allowed_roles with a fault: the admin gate also lets an ambassador through
allowed_roles_AdminLeak(required_role) ==
    {required_role, ADMIN}
        \cup (IF required_role = AMBASSADOR
                THEN {PARTICIPANT, REGISTRATION_TEAM}
                ELSE IF required_role = REGISTRATION_TEAM
                       THEN {PARTICIPANT, AMBASSADOR}
                       ELSE {AMBASSADOR})

\* allowed_roles with a fault: the admin override is forgotten
allowed_roles_NoAdmin(required_role) ==
    {required_role}
        \cup (IF required_role = AMBASSADOR
                THEN {PARTICIPANT, REGISTRATION_TEAM}
                ELSE IF required_role = REGISTRATION_TEAM
                       THEN {PARTICIPANT, AMBASSADOR}
                       ELSE {})

\* allowed_roles with a fault: the ambassador gate forgets the registration team
allowed_roles_NoCrossGrant(required_role) ==
    {required_role, ADMIN}
        \cup (IF required_role = AMBASSADOR
                THEN {PARTICIPANT}
                ELSE IF required_role = REGISTRATION_TEAM
                       THEN {PARTICIPANT, AMBASSADOR}
                       ELSE {})

allowed_roles(required_role) ==
    {required_role, ADMIN}
        \cup (IF required_role = AMBASSADOR
                THEN {PARTICIPANT, REGISTRATION_TEAM}
                ELSE IF required_role = REGISTRATION_TEAM
                       THEN {PARTICIPANT, AMBASSADOR}
                       ELSE {})

\* role_checker: TRUE when the caller passes, FALSE when it raises 403
require_role(required_role, role) == role \in allowed_roles(required_role)

\* the role test of get_current_participant
participant_allowed_roles == {PARTICIPANT, ADMIN, AMBASSADOR, REGISTRATION_TEAM}

\* --------------------------------------------------------------- queries
Min(S) == CHOOSE x \in S : \A y \in S : x <= y

\* db.query(...).first(): the row with the lowest id, or None
First(S) == IF S = {} THEN NULL ELSE Min(S)

get_participant_by_user_id(user_id) ==
    First({i \in DOMAIN participants : participants[i].user_id = user_id})

get_participant(participant_id) ==
    First({i \in DOMAIN participants : i = participant_id})

get_payment_by_participant(participant_id) ==
    First({i \in DOMAIN payments : payments[i].participant_id = participant_id})

get_payment_by_id(payment_id) ==
    First({i \in DOMAIN payments : i = payment_id})

get_team_by_code(code) ==
    First({i \in DOMAIN teams : teams[i].code = code})

\* db.query(Participant).filter(Participant.team_id == team.id).count()
current_members(team_id) ==
    Cardinality({i \in DOMAIN participants : participants[i].team_id = team_id})

\* -------------------------------------------------------------- payments
\* create_payment: the initial status follows the method
initial_status(payment_method) ==
    IF payment_method = ONLINE THEN PENDING ELSE PENDING_CASH

\* What the column Enum(PaymentMethod) stores for a value handed to
\* Payment(payment_method=...): a member for the member itself, for the str
\* equal to it ("online", the enum mixes in str) and for the str naming it
\* ("ONLINE", the name is the persisted value); any other str is passed to
\* the database, which refuses it (NONE).
db_value(payment_method) ==
    IF payment_method \in {ONLINE, "ONLINE"} THEN ONLINE
    ELSE IF payment_method \in {CASH, "CASH"} THEN CASH
    ELSE NONE

NewPayment(participant_id, team_id, payment_method) ==
    [participant_id |-> participant_id,
     team_id |-> team_id,
     payment_method |-> db_value(payment_method),
     status |-> initial_status(payment_method),
     uploaded_at |-> NULL,
     verified_by |-> NULL,
     verified_at |-> NULL]

\* The INSERT of create_payment under the table's constraints:
\* participant_id is UNIQUE and a FOREIGN KEY to participants.id.
insert_violates(participant_id) ==
    \/ get_payment_by_participant(participant_id) # NULL
    \/ participant_id \notin DOMAIN participants

\* create_payment: db.add + db.commit of the new row
create_payment(table, participant_id, team_id, payment_method) ==
    Append(table, NewPayment(participant_id, team_id, payment_method))

\* with_receipt with a fault: an upload puts the Payment back to pending
with_receipt_Resubmits(table, payment_id) ==
    [table EXCEPT ![payment_id].uploaded_at = now,
                  ![payment_id].status = PENDING]

\* The receipt columns of a Payment, written together: transaction_id,
\* receipt_path (a file named after the participant and the time) and
\* uploaded_at = datetime.now(); the row keeps the time.
with_receipt(table, payment_id) ==
    [table EXCEPT ![payment_id].uploaded_at = now]

\* create_payment of the manual registration, at the end of the handler:
\* the INSERT of a method the database does not know raises, the handler
\* catches nothing and what was committed before stays.
paid_manually(o, participant_id, team_id, payment_method) ==
    IF db_value(payment_method) = NONE
      THEN [o EXCEPT !.response = SERVER_ERROR]
      ELSE [o EXCEPT !.payments =
               create_payment(payments, participant_id, team_id, payment_method)]

\* ------------------------------------------------------------------ teams
\* create_team_fails with a fault: neither column is declared unique
create_team_fails_Never(team_name, code) == FALSE

\* create_team_fails with a fault: the code column is not declared unique
create_team_fails_NameOnly(team_name, code) ==
    \E t \in DOMAIN teams : teams[t].name = team_name

\* Team.name and Team.code are UNIQUE: the INSERT of create_team raises
\* IntegrityError
create_team_fails(team_name, code) ==
    \E t \in DOMAIN teams : teams[t].name = team_name \/ teams[t].code = code

\* the codes on which the loop of create_team can end
free_codes == TeamCodes \ {teams[t].code : t \in DOMAIN teams}

\* the values generate_team_code is drawn for in one request
drawn_codes(create_new_team, team_name) ==
    IF create_new_team /\ team_name # NONE THEN free_codes ELSE {NULL}

\* a create_team between the end of its loop and its INSERT
TeamRequest(op, participant_id, team_name, code, method) ==
    [kind |-> "team", op |-> op, by |-> NULL, pid |-> participant_id,
     team |-> NULL, method |-> method, name |-> team_name, code |-> code]

\* team_is_full with a fault: the limit is tested one member too late
team_is_full_OffByOne(members) == members > TEAM_MAX_SIZE

\* join_team: the size test
team_is_full(members) == members >= TEAM_MAX_SIZE

\* the ValueErrors of join_team; both handlers answer them with a 500
INVALID_CODE == "Invalid team code"
TEAM_FULL == "Team is full"

\* join_team with a fault: the test of the lookup's result is missing
join_team_NoLookupTest(team_code) ==
    LET team == get_team_by_code(team_code)
    IN  IF team # NULL /\ team_is_full(current_members(team))
          THEN [error |-> TEAM_FULL, team |-> team]
        ELSE [error |-> NONE, team |-> team]

\* join_team up to its commit: the error it raises (NONE for none) and the
\* team it is about to attach the participant to
join_team(team_code) ==
    LET team == get_team_by_code(team_code)
    IN  IF team = NULL
          THEN [error |-> INVALID_CODE, team |-> NULL]
        ELSE IF team_is_full(current_members(team))
          THEN [error |-> TEAM_FULL, team |-> team]
        ELSE [error |-> NONE, team |-> team]

\* attach_member with a fault: a joining participant is flagged as a lead
attach_member_AsLead(table, participant_id, team_id) ==
    [table EXCEPT ![participant_id].team_id = team_id,
                  ![participant_id].is_team_lead = TRUE]

\* join_team: participant.team_id = team.id; db.commit()
attach_member(table, participant_id, team_id) ==
    [table EXCEPT ![participant_id].team_id = team_id]

\* create_team: the leader's row
attach_leader(table, participant_id, team_id) ==
    [table EXCEPT ![participant_id].team_id = team_id,
                  ![participant_id].is_team_lead = TRUE]

\* crud.user.get_user_by_email: the user with that email, NULL for none (an
\* email is named by the id of the user it belongs to)
get_user_by_email(email) == First({i \in DOMAIN users : i = email})

\* crud.user.create_user: a new row of the users table, with the default
\* role of the model
create_user(table) == Append(table, PARTICIPANT)

\* The body shared by public_registration (op = "public") and
\* register_participant_manually (op = "manual"): user, participant, then
\* the team branch; the manual handler ends with create_payment.  `code`
\* is the value the loop of create_team ends on; the request stops there
\* and create_team_commit is its second half.  A join stops after the
\* member count of join_team has been read; join_team_commit is its second
\* half.
registration(op, email, create_new_team, team_name, team_code, method, code) ==
    LET user_id == Len(users) + 1
        participant_id == Len(participants) + 1
        created == [Answer(OK) EXCEPT
                      !.users = create_user(users),
                      !.participants =
                          Append(participants,
                                 [user_id |-> user_id, team_id |-> NULL,
                                  is_team_lead |-> FALSE])]
        paid(o, team) ==
            IF op = "manual" THEN paid_manually(o, participant_id, team, method) ELSE o
    IN  IF get_user_by_email(email) # NULL
          THEN Answer(BAD_REQUEST)
        ELSE IF create_new_team /\ team_name # NONE
          THEN [created EXCEPT !.started =
                   {TeamRequest(op, participant_id, team_name, code, method)}]
        ELSE IF team_code # NULL
          THEN IF join_team(team_code).error # NONE
                 THEN [created EXCEPT !.response = SERVER_ERROR]
                 ELSE [created EXCEPT !.started =
                          {Request("join", op, NULL, participant_id,
                                   join_team(team_code).team, method)}]
        ELSE paid(created, NULL)

public_registration(email, create_new_team, team_name, team_code, code) ==
    registration("public", email, create_new_team, team_name, team_code, NONE, code)

register_participant_manually(caller, email, create_new_team, team_name, team_code, method, code) ==
    IF ~require_role(REGISTRATION_TEAM, users[caller])
      THEN Answer(FORBIDDEN)
      ELSE registration("manual", email, create_new_team, team_name, team_code, method, code)

\* The second half of a team creation: the INSERT of the team, the
\* leader's row, and create_payment when the request is a manual
\* registration.  A violated constraint ends the request with a 500.
create_team_commit(r) ==
    LET team_id == Len(teams) + 1
        led == [Answer(OK) EXCEPT
                  !.teams = Append(teams, [name |-> r.name, code |-> r.code]),
                  !.participants = attach_leader(participants, r.pid, team_id)]
    IN  IF create_team_fails(r.name, r.code)
          THEN Answer(SERVER_ERROR)
        ELSE IF r.op = "manual"
          THEN paid_manually(led, r.pid, team_id, r.method)
        ELSE led

\* The second half of a join: the commit of join_team, and create_payment
\* when the request is a manual registration.
join_team_commit(r) ==
    LET joined == [Answer(OK) EXCEPT
                     !.participants = attach_member(participants, r.pid, r.team)]
    IN  IF r.op = "manual" THEN paid_manually(joined, r.pid, r.team, r.method) ELSE joined

\* ------------------------------------------------------- crud/payment.py
\* update_payment_status with a fault: the verifier and the time are not
\* recorded
update_payment_status_StatusOnly(table, payment_id, status, verified_by) ==
    [table EXCEPT ![payment_id].status = status]

\* update_payment_status, on a payment that exists
update_payment_status(table, payment_id, status, verified_by) ==
    IF status = VERIFIED /\ verified_by # NULL
      THEN [table EXCEPT ![payment_id].status = status,
                         ![payment_id].verified_by = verified_by,
                         ![payment_id].verified_at = now]
      ELSE [table EXCEPT ![payment_id].status = status]

\* verify_cash_payment returns the payment it looked up, verified or not:
\* `payment` is the row returned (NULL for None), `payments` the table as
\* committed, `stamped` whether datetime.now() was read.
verify_cash_payment(participant_id, ambassador_id) ==
    LET payment == get_payment_by_participant(participant_id)
    IN  IF payment # NULL /\ payments[payment].payment_method = CASH
          THEN [payment |-> payment,
                payments |-> [payments EXCEPT ![payment].status = VERIFIED,
                                              ![payment].verified_by = ambassador_id,
                                              ![payment].verified_at = now],
                stamped |-> TRUE]
          ELSE [payment |-> payment, payments |-> payments, stamped |-> FALSE]

verify_online_payment(payment_id, approve, admin_id) ==
    LET payment == get_payment_by_id(payment_id)
    IN  IF payment # NULL /\ payments[payment].payment_method = ONLINE
          THEN IF approve
                 THEN [payment |-> payment,
                       payments |-> [payments EXCEPT ![payment].status = VERIFIED,
                                                     ![payment].verified_by = admin_id,
                                                     ![payment].verified_at = now],
                       stamped |-> TRUE]
                 ELSE [payment |-> payment,
                       payments |-> [payments EXCEPT ![payment].status = REJECTED],
                       stamped |-> FALSE]
          ELSE [payment |-> payment, payments |-> payments, stamped |-> FALSE]

\* the response of an endpoint that returns what the crud function committed
Committed(c) ==
    [Answer(OK) EXCEPT !.payments = c.payments, !.stamped = c.stamped]

\* ---------------------------------------------------------- utils/email.py
\* send_email with a fault: the exception of aiosmtplib.send is let through
send_email_Raises(up) == IF up THEN "sent" ELSE "raised"

\* EmailService.send_email: True when the message went out; the exception
\* of a failed send is caught and printed, and False is returned
send_email(up) == IF up THEN "sent" ELSE "failed"

\* The outcome o of a handler that goes on to await an email of the given
\* kind without a try block of its own (the ticket, if any, is generated
\* before): an exception of the send leaves the handler, and the request
\* is answered with a 500.
Emailed(o, kind) ==
    [o EXCEPT !.email = kind,
              !.delivered = (send_email(smtp_up) = "sent"),
              !.response = IF send_email(smtp_up) = "raised" THEN SERVER_ERROR ELSE @]

\* The same inside `try: ... except Exception`: an exception of the send is
\* printed and the handler goes on to its commit.
EmailTried(o, kind) ==
    [o EXCEPT !.email = kind, !.delivered = (send_email(smtp_up) = "sent")]

\* ---------------------------------------------------- creating a payment
\* The handlers below end their first half on the existence test; the
\* INSERT of create_payment is create_payment_commit.
select_payment_method(email, method) ==
    LET participant == get_participant_by_user_id(email)
    IN  IF email \notin DOMAIN users
          THEN Answer(NOT_FOUND)
        ELSE IF participant = NULL
          THEN Answer(NOT_FOUND)
        ELSE IF get_payment_by_participant(participant) # NULL
          THEN Answer(BAD_REQUEST)
        ELSE Pending(Request("pay", "select_payment_method", NULL, participant,
                             participants[participant].team_id, method))

\* select_cash_payment and upload_payment_receipt: current_user is the
\* Participant that get_current_participant returns, and its id is also
\* handed to get_participant_by_user_id.
participant_payment(op, caller, method) ==
    LET current_user == get_participant_by_user_id(caller)
        participant == get_participant_by_user_id(current_user)
    IN  IF users[caller] \notin participant_allowed_roles
          THEN Answer(FORBIDDEN)
        ELSE IF current_user = NULL
          THEN Answer(NOT_FOUND)
        ELSE IF get_payment_by_participant(current_user) # NULL
          THEN Answer(BAD_REQUEST)
        ELSE Pending(Request("pay", op, caller, current_user,
                             IF participant # NULL
                               THEN participants[participant].team_id
                               ELSE NULL,
                             method))

select_cash_payment(caller) == participant_payment("select_cash_payment", caller, CASH)

upload_payment_receipt(caller) == participant_payment("upload_payment_receipt", caller, ONLINE)

register_cash_payment_manual(caller, participant_id) ==
    IF ~require_role(REGISTRATION_TEAM, users[caller])
      THEN Answer(FORBIDDEN)
    ELSE IF get_payment_by_participant(participant_id) # NULL
      THEN Answer(BAD_REQUEST)
    ELSE Pending(Request("pay", "register_cash_payment_manual", caller,
                         participant_id, NULL, CASH))

\* The INSERT of a request that passed the existence test.  The IntegrityError
\* of a violated constraint, or the DataError of an unknown method, is caught
\* by no handler: the response is a 500 and the transaction is rolled back.  register_cash_payment_manual goes on
\* to update_payment_status(VERIFIED, team_member.id).
create_payment_commit(r) ==
    IF insert_violates(r.pid) \/ db_value(r.method) = NONE
      THEN Answer(SERVER_ERROR)
    ELSE IF r.op = "register_cash_payment_manual"
      THEN [Answer(OK) EXCEPT
              !.payments =
                  update_payment_status(
                      create_payment(payments, r.pid, r.team, r.method),
                      Len(payments) + 1, VERIFIED, r.by),
              !.stamped = TRUE]
    ELSE IF r.op = "upload_payment_receipt"
      THEN Emailed([Answer(OK) EXCEPT
                      !.payments =
                          with_receipt(create_payment(payments, r.pid, r.team, r.method),
                                       Len(payments) + 1),
                      !.stamped = TRUE],
                   MAIL_PENDING)
    ELSE [Answer(OK) EXCEPT
            !.payments = create_payment(payments, r.pid, r.team, r.method)]

\* POST /public/upload-payment-receipt: the receipt of a Payment that
\* exists; the uploaded file is one validate_file_upload accepts
upload_payment_receipt_public(email) ==
    LET user == get_user_by_email(email)
        participant == get_participant_by_user_id(user)
        payment == get_payment_by_participant(participant)
    IN  IF user = NULL
          THEN Answer(NOT_FOUND)
        ELSE IF participant = NULL
          THEN Answer(NOT_FOUND)
        ELSE IF payment = NULL
          THEN Answer(NOT_FOUND)
        ELSE IF payments[payment].payment_method # ONLINE
          THEN Answer(BAD_REQUEST)
        ELSE [Answer(OK) EXCEPT !.payments = with_receipt(payments, payment),
                                !.stamped = TRUE]

\* ------------------------------------------------------- verifying cash
\* POST /ambassador/verify-cash/{participant_id}
ambassador_verify_cash_payment_endpoint(caller, participant_id) ==
    LET participant == get_participant(participant_id)
        payment == get_payment_by_participant(participant_id)
        c == verify_cash_payment(participant_id, caller)
    IN  IF ~require_role(AMBASSADOR, users[caller])
          THEN Answer(FORBIDDEN)
        ELSE IF participant = NULL
          THEN Answer(NOT_FOUND)
        ELSE IF payment = NULL
          THEN Answer(NOT_FOUND)
        ELSE IF payments[payment].payment_method # CASH
          THEN Answer(BAD_REQUEST)
        ELSE IF payments[payment].status # PENDING_CASH
          THEN Answer(BAD_REQUEST)
        ELSE IF c.payment = NULL
          THEN Answer(SERVER_ERROR)
        ELSE Emailed([Committed(c) EXCEPT !.qr = participant], MAIL_VERIFIED)

\* POST /payments/verify-cash
payments_verify_cash_payment_endpoint(caller, participant_id) ==
    LET c == verify_cash_payment(participant_id, caller)
    IN  IF ~require_role(AMBASSADOR, users[caller])
          THEN Answer(FORBIDDEN)
        ELSE IF c.payment = NULL
          THEN Answer(NOT_FOUND)
        ELSE Committed(c)

\* ----------------------------------------------------- verifying online
\* POST /admin/verify-online/{payment_id}; the query joins the payment to
\* its participant and user.  The status is assigned, the ticket generated
\* and the email tried before the one commit at the end.
admin_verify_online_payment(caller, payment_id, approve) ==
    LET payment == get_payment_by_id(payment_id)
    IN  IF ~require_role(ADMIN, users[caller])
          THEN Answer(FORBIDDEN)
        ELSE IF payment = NULL
          THEN Answer(NOT_FOUND)
        ELSE IF payments[payment].payment_method # ONLINE
          THEN Answer(BAD_REQUEST)
        ELSE IF approve
          THEN EmailTried(
                   [Answer(OK) EXCEPT
                      !.payments = [payments EXCEPT ![payment].status = VERIFIED,
                                                    ![payment].verified_by = caller,
                                                    ![payment].verified_at = now],
                      !.stamped = TRUE,
                      !.qr = payments[payment].participant_id],
                   MAIL_VERIFIED)
        ELSE EmailTried(
                 [Answer(OK) EXCEPT
                    !.payments = [payments EXCEPT ![payment].status = REJECTED]],
                 MAIL_REJECTED)

\* POST /payments/verify-online/{payment_id}
payments_verify_online_payment_endpoint(caller, payment_id, approve) ==
    LET c == verify_online_payment(payment_id, approve, caller)
    IN  IF ~require_role(ADMIN, users[caller])
          THEN Answer(FORBIDDEN)
        ELSE IF c.payment = NULL
          THEN Answer(NOT_FOUND)
        ELSE Committed(c)

\* PUT /payments/update/{payment_id}; status = NONE when the body has none
update_payment(caller, payment_id, status) ==
    LET payment == get_payment_by_id(payment_id)
    IN  IF ~require_role(ADMIN, users[caller])
          THEN Answer(FORBIDDEN)
        ELSE IF payment = NULL
          THEN Answer(NOT_FOUND)
        ELSE IF status = NONE
          THEN Answer(OK)
        ELSE IF status = VERIFIED
          THEN [Answer(OK) EXCEPT
                  !.payments = [payments EXCEPT ![payment].status = status,
                                                ![payment].verified_by = caller,
                                                ![payment].verified_at = now],
                  !.stamped = TRUE]
        ELSE [Answer(OK) EXCEPT
                !.payments = [payments EXCEPT ![payment].status = status]]

\* ------------------------------------------------- payment status of a team
\* get_payments_by_team: the Payments whose own team reference is the team
get_payments_by_team(team_id) ==
    {i \in DOMAIN payments : payments[i].team_id = team_id}

\* team.members: the participants whose team reference is the team
team_members(team_id) ==
    {p \in DOMAIN participants : participants[p].team_id = team_id}

\* get_team_payment_status: for every member the first of the team's
\* Payments that belongs to it; the member is paid when that Payment is
\* verified and pending when it is not or when none is found
get_team_payment_status(team_id) ==
    LET team_payments == get_payments_by_team(team_id)
        members == IF team_id \in DOMAIN teams THEN team_members(team_id) ELSE {}
        payment(member) ==
            First({i \in team_payments : payments[i].participant_id = member})
        paid == {m \in members :
                    payment(m) # NULL /\ payments[payment(m)].status = VERIFIED}
    IN  [total_members |-> Cardinality(members),
         paid_members |-> Cardinality(paid),
         pending_members |-> Cardinality(members \ paid)]

\* can_team_participate
can_team_participate(team_id) ==
    get_team_payment_status(team_id).paid_members
        = get_team_payment_status(team_id).total_members

\* GET /payments/team-payment-status/{team_id}: current_user is the
\* Participant that get_current_participant returns, and its id is handed
\* to get_participant_by_user_id; the handler reads only.
get_team_payment(caller, team_id) ==
    LET current_user == get_participant_by_user_id(caller)
        participant == get_participant_by_user_id(current_user)
    IN  IF users[caller] \notin participant_allowed_roles
          THEN Answer(FORBIDDEN)
        ELSE IF current_user = NULL
          THEN Answer(NOT_FOUND)
        ELSE IF participant = NULL \/ participants[participant].team_id # team_id
          THEN Answer(FORBIDDEN)
        ELSE Answer(OK)

\* ------------------------------------------------------- utils/qr_code.py
EVENT == "Devcon '26"
RequiredFields == {"participant_id", "name", "email", "track", "event"}

\* A QR string: what json.loads makes of it ("object"; "number", "null",
\* "string", "list" for a JSON document that is no object; "malformed" for
\* a string that is no JSON), the names for which `field in qr_data` is
\* true (the keys of an object, the elements of a list, the substrings of
\* a string), and for an object its participant_id, event and valid
\* entries.
Ticket(participant_id) ==
    [json |-> "object", fields |-> RequiredFields \cup {"valid"},
     participant_id |-> participant_id, event |-> EVENT, valid |-> TRUE]

QRInputs ==
    {Ticket(i) : i \in 1..(Len(participants) + 1)}
        \cup {[Ticket(1) EXCEPT !.event = "Devcon '25"],
              [Ticket(1) EXCEPT !.valid = FALSE],
              [Ticket(1) EXCEPT !.fields = RequiredFields, !.valid = FALSE],
              [Ticket(1) EXCEPT !.fields = @ \ {"email"}],
              [Ticket(1) EXCEPT !.json = "malformed"],
              [Ticket(1) EXCEPT !.json = "number"],
              [Ticket(1) EXCEPT !.json = "null"],
              [Ticket(1) EXCEPT !.json = "list", !.fields = {}],
              [Ticket(1) EXCEPT !.json = "list", !.fields = RequiredFields],
              [Ticket(1) EXCEPT !.json = "string", !.fields = RequiredFields]}

\* verify_qr_code: "valid", "invalid", or "raised" for an exception that
\* the except clause for json.JSONDecodeError does not catch: the
\* TypeError of `field in qr_data` on a number or null, and the
\* AttributeError of qr_data.get on a list or a string that holds every
\* required name.
verify_qr_code(q) ==
    IF q.json = "malformed" THEN "invalid"
    ELSE IF q.json \in {"number", "null"} THEN "raised"
    ELSE IF ~(RequiredFields \subseteq q.fields) THEN "invalid"
    ELSE IF q.json # "object" THEN "raised"
    ELSE IF q.event # EVENT THEN "invalid"
    ELSE IF ~("valid" \in q.fields /\ q.valid) THEN "invalid"
    ELSE "valid"

\* --------------------------------------------------------------- check-in
\* payment_is_verified with a fault: any payment record will do
payment_is_verified_AnyPayment(participant_id) ==
    get_payment_by_participant(participant_id) # NULL

\* check_in_participant: participant.payment and its status is VERIFIED
payment_is_verified(participant_id) ==
    /\ get_payment_by_participant(participant_id) # NULL
    /\ payments[get_payment_by_participant(participant_id)].status = VERIFIED

CheckInRow(participant_id, event_type) ==
    [participant_id |-> participant_id, event_type |-> event_type]

\* a check-in between its test for an existing record and its INSERT
CheckInRequest(by, participant_id, event_type) ==
    [kind |-> "checkin", op |-> "check_in_participant", by |-> by,
     pid |-> participant_id, team |-> NULL, method |-> NONE,
     event_type |-> event_type]

\* POST /admin/check-in, up to the test for an existing record; the INSERT
\* is check_in_commit
check_in_participant(caller, qr, event_type) ==
    IF ~require_role(ADMIN, users[caller])
      THEN Answer(FORBIDDEN)
    ELSE IF verify_qr_code(qr) = "raised"
      THEN Answer(SERVER_ERROR)
    ELSE IF verify_qr_code(qr) = "invalid"
      THEN Answer(BAD_REQUEST)
    ELSE IF get_participant(qr.participant_id) = NULL
      THEN Answer(NOT_FOUND)
    ELSE IF ~payment_is_verified(qr.participant_id)
      THEN Answer(BAD_REQUEST)
    ELSE IF BagIn(CheckInRow(qr.participant_id, event_type), checkins)
      THEN Answer(BAD_REQUEST)
    ELSE Pending(CheckInRequest(caller, qr.participant_id, event_type))

\* db.add(check_in); db.commit(): the checkins table has no constraint
\* besides its primary key and the foreign keys
check_in_commit(r) ==
    [Answer(OK) EXCEPT
       !.checkins = checkins (+) SetToBag({CheckInRow(r.pid, r.event_type)})]

\* POST /admin/verify-qr: reads only
verify_qr_endpoint(caller, qr) ==
    IF ~require_role(ADMIN, users[caller])
      THEN Answer(FORBIDDEN)
    ELSE IF verify_qr_code(qr) = "raised"
      THEN Answer(SERVER_ERROR)
    ELSE Answer(OK)

\* ------------------------------------------------------- roles of users
\* crud.user.update_user_role: the user's role is set; NULL for a missing user
get_user(user_id) == First({i \in DOMAIN users : i = user_id})

update_user_role(table, user_id, role) == [table EXCEPT ![user_id] = role]

\* POST /admin/create-user: create_user, then update_user_role
create_admin_user(caller, email, role) ==
    IF ~require_role(ADMIN, users[caller])
      THEN Answer(FORBIDDEN)
    ELSE IF get_user(email) # NULL
      THEN Answer(BAD_REQUEST)
    ELSE [Answer(OK) EXCEPT
            !.users = update_user_role(create_user(users), Len(users) + 1, role)]

\* PUT /admin/update-user-role
update_user_role_endpoint(caller, user_id, role) ==
    IF ~require_role(ADMIN, users[caller])
      THEN Answer(FORBIDDEN)
    ELSE IF get_user(user_id) = NULL
      THEN Answer(NOT_FOUND)
    ELSE [Answer(OK) EXCEPT !.users = update_user_role(users, user_id, role)]

\* create_profile_for_user with a fault: the role of an admin is overwritten
create_profile_for_user_Overwrites(caller, user_email, role) ==
    IF ~require_role(ADMIN, users[caller])
      THEN Answer(FORBIDDEN)
    ELSE IF get_user(user_email) = NULL
      THEN Answer(NOT_FOUND)
    ELSE [Answer(OK) EXCEPT !.users = [users EXCEPT ![user_email] = role]]

\* create_ambassador_profile_for_user and
\* create_registration_team_profile_for_user: an admin keeps its role
create_profile_for_user(caller, user_email, role) ==
    IF ~require_role(ADMIN, users[caller])
      THEN Answer(FORBIDDEN)
    ELSE IF get_user(user_email) = NULL
      THEN Answer(NOT_FOUND)
    ELSE IF users[user_email] = ADMIN
      THEN Answer(OK)
    ELSE [Answer(OK) EXCEPT !.users = [users EXCEPT ![user_email] = role]]

\* POST /admin/create-ambassador-profile
create_ambassador_profile_for_user(caller, user_email) ==
    create_profile_for_user(caller, user_email, AMBASSADOR)

\* POST /admin/create-registration-team-profile
create_registration_team_profile_for_user(caller, user_email) ==
    create_profile_for_user(caller, user_email, REGISTRATION_TEAM)

\* POST /admin/grant-multi-role-access
grant_multi_role_access(caller, user_email, target_role) ==
    IF ~require_role(ADMIN, users[caller])
      THEN Answer(FORBIDDEN)
    ELSE IF get_user(user_email) = NULL
      THEN Answer(NOT_FOUND)
    ELSE [Answer(OK) EXCEPT !.users = [users EXCEPT ![user_email] = target_role]]

\* -------------------------------------------------------- specifications
\* The deployment before any registration: the staff accounts exist.
Init ==
    /\ users = <<ADMIN, AMBASSADOR, REGISTRATION_TEAM>>
    /\ participants = <<>>
    /\ teams = <<>>
    /\ payments = <<>>
    /\ checkins = EmptyBag
    /\ inflight = {}
    /\ clock = 0
    /\ response = OK
    /\ notice = NoticeOf(Answer(OK))
    /\ smtp_up = TRUE

\* the inputs of the requests
Callers == DOMAIN users
Emails == {Len(users), Len(users) + 1}     \* an email is named by its user id
ParticipantIds == 1..(Len(participants) + 1)
PaymentIds == 1..(Len(payments) + 1)

Register ==
    /\ Len(participants) < MaxParticipants
    /\ \E e \in Emails, new \in BOOLEAN, n \in TeamNames \cup {NONE},
          c \in TeamCodes \cup {NULL} :
          \E code \in drawn_codes(new, n) :
              Apply(public_registration(e, new, n, c, code), {})

RegisterManualPaying(methods) ==
    /\ Len(participants) < MaxParticipants
    /\ \E u \in Callers, e \in Emails, new \in BOOLEAN, n \in TeamNames \cup {NONE},
          c \in TeamCodes \cup {NULL}, m \in methods :
          \E code \in drawn_codes(new, n) :
              Apply(register_participant_manually(u, e, new, n, c, m, code), {})

RegisterManual == RegisterManualPaying(MethodInputs)

\* the manual registrations of the team specifications pay cash: the
\* payment method plays no part in create_team and join_team
RegisterManualCash == RegisterManualPaying({CASH})

JoinWrite ==
    \E r \in inflight : r.kind = "join" /\ Apply(join_team_commit(r), {r})

TeamWrite ==
    \E r \in inflight : r.kind = "team" /\ Apply(create_team_commit(r), {r})

SelectPaymentMethod ==
    \E e \in Emails, m \in MethodInputs : Apply(select_payment_method(e, m), {})

SelectCash == \E u \in Callers : Apply(select_cash_payment(u), {})

UploadReceipt == \E u \in Callers : Apply(upload_payment_receipt(u), {})

RegisterCash ==
    \E u \in Callers, p \in ParticipantIds :
        Apply(register_cash_payment_manual(u, p), {})

UploadReceiptPublic ==
    \E e \in Emails : Apply(upload_payment_receipt_public(e), {})

TeamIds == 1..(Len(teams) + 1)

GetTeamPayment ==
    \E u \in Callers, t \in TeamIds : Apply(get_team_payment(u, t), {})

PayWrite ==
    \E r \in inflight : r.kind = "pay" /\ Apply(create_payment_commit(r), {r})

AmbVerifyCash ==
    \E u \in Callers, p \in ParticipantIds :
        Apply(ambassador_verify_cash_payment_endpoint(u, p), {})

PayVerifyCash ==
    \E u \in Callers, p \in ParticipantIds :
        Apply(payments_verify_cash_payment_endpoint(u, p), {})

\* FastAPI resolves get_current_admin before it calls the handler: a caller
\* the role check refuses is answered 403 whatever the request carries, and
\* the handler bodies below run for the callers it lets through.
AdminGateDenies ==
    \E u \in Callers :
        ~require_role(ADMIN, users[u]) /\ Apply(Answer(FORBIDDEN), {})

AdminVerifyOnline ==
    \E u \in Callers, i \in PaymentIds, a \in BOOLEAN :
        require_role(ADMIN, users[u])
            /\ Apply(admin_verify_online_payment(u, i, a), {})

PayVerifyOnline ==
    \E u \in Callers, i \in PaymentIds, a \in BOOLEAN :
        require_role(ADMIN, users[u])
            /\ Apply(payments_verify_online_payment_endpoint(u, i, a), {})

UpdatePayment ==
    \E u \in Callers, i \in PaymentIds, st \in PaymentStatus \cup {NONE} :
        require_role(ADMIN, users[u]) /\ Apply(update_payment(u, i, st), {})

CheckIn ==
    \E u \in Callers, q \in QRInputs, ev \in EventTypes :
        require_role(ADMIN, users[u]) /\ Apply(check_in_participant(u, q, ev), {})

CheckInWrite ==
    \E r \in inflight : r.kind = "checkin" /\ Apply(check_in_commit(r), {r})

VerifyQr ==
    \E u \in Callers, q \in QRInputs :
        require_role(ADMIN, users[u]) /\ Apply(verify_qr_endpoint(u, q), {})

TeamStart == Register \/ RegisterManual

PayStart ==
    \/ SelectPaymentMethod
    \/ SelectCash
    \/ UploadReceipt
    \/ RegisterCash
    \/ AmbVerifyCash
    \/ PayVerifyCash
    \/ AdminVerifyOnline
    \/ PayVerifyOnline
    \/ UpdatePayment
    \/ CheckIn
    \/ VerifyQr
    \/ AdminGateDenies

\* every handler, from the empty deployment
Next ==
    \/ TeamStart
    \/ TeamWrite
    \/ JoinWrite
    \/ PayStart
    \/ UploadReceiptPublic
    \/ GetTeamPayment
    \/ PayWrite
    \/ CheckInWrite
Spec == Init /\ [][Next]_vars

\* registrations only, requests interleaving at their commits
NextTeam == Register \/ RegisterManualCash \/ TeamWrite \/ JoinWrite
SpecTeam == Init /\ [][NextTeam]_vars

\* public registrations only, requests interleaving at their commits
NextTeamPublic == Register \/ TeamWrite \/ JoinWrite
SpecTeamPublic == Init /\ [][NextTeamPublic]_vars

\* registrations only, one request at a time
NextTeamSeq ==
    \/ inflight = {} /\ Register
    \/ inflight = {} /\ RegisterManualCash
    \/ TeamWrite
    \/ JoinWrite
SpecTeamSeq == Init /\ [][NextTeamSeq]_vars

\* The payment handlers over a population that one registration leaves
\* behind: a participant who created team "alpha".
InitPay ==
    /\ users = <<ADMIN, AMBASSADOR, REGISTRATION_TEAM, PARTICIPANT>>
    /\ participants = <<[user_id |-> 4, team_id |-> 1, is_team_lead |-> TRUE]>>
    /\ teams = <<[name |-> "alpha", code |-> 1]>>
    /\ payments = <<>>
    /\ checkins = EmptyBag
    /\ inflight = {}
    /\ clock = 0
    /\ response = OK
    /\ notice = NoticeOf(Answer(OK))
    /\ smtp_up = TRUE

NextPay == PayStart \/ PayWrite \/ CheckInWrite
SpecPay == InitPay /\ [][NextPay]_vars

\* the payment handlers, one request at a time
NextPaySeq ==
    \/ inflight = {} /\ SelectPaymentMethod
    \/ inflight = {} /\ SelectCash
    \/ inflight = {} /\ UploadReceipt
    \/ inflight = {} /\ RegisterCash
    \/ inflight = {} /\ AmbVerifyCash
    \/ inflight = {} /\ PayVerifyCash
    \/ inflight = {} /\ AdminVerifyOnline
    \/ inflight = {} /\ PayVerifyOnline
    \/ inflight = {} /\ UpdatePayment
    \/ inflight = {} /\ CheckIn
    \/ inflight = {} /\ VerifyQr
    \/ inflight = {} /\ AdminGateDenies
    \/ PayWrite
    \/ CheckInWrite
SpecPaySeq == InitPay /\ [][NextPaySeq]_vars

\* The same population with the participants' own payment requests and the
\* four verify endpoints only: every change of a status is a verify call.
NextVerify ==
    \/ SelectPaymentMethod
    \/ SelectCash
    \/ UploadReceipt
    \/ PayWrite
    \/ AmbVerifyCash
    \/ PayVerifyCash
    \/ AdminVerifyOnline
    \/ PayVerifyOnline
SpecVerify == InitPay /\ [][NextVerify]_vars

\* The online payments of the population of InitPay: the choice of the
\* method, the upload and re-upload of the receipt, and the admin's verdict.
NextUpload ==
    \/ SelectPaymentMethod
    \/ UploadReceipt
    \/ PayWrite
    \/ UploadReceiptPublic
    \/ AdminVerifyOnline
    \/ AdminGateDenies
SpecUpload == InitPay /\ [][NextUpload]_vars

\* Two teams after the admin account and two registrations that each
\* created a team: the ids of users and participants differ by one.
InitTeamPay ==
    /\ users = <<ADMIN, PARTICIPANT, PARTICIPANT>>
    /\ participants = <<[user_id |-> 2, team_id |-> 1, is_team_lead |-> TRUE],
                        [user_id |-> 3, team_id |-> 2, is_team_lead |-> TRUE]>>
    /\ teams = <<[name |-> "alpha", code |-> 1], [name |-> "beta", code |-> 2]>>
    /\ payments = <<>>
    /\ checkins = EmptyBag
    /\ inflight = {}
    /\ clock = 0
    /\ response = OK
    /\ notice = NoticeOf(Answer(OK))
    /\ smtp_up = TRUE

\* the cash payments of the two leaders and the payment status of their
\* teams, one request at a time
NextTeamPay ==
    \/ inflight = {} /\ SelectCash
    \/ inflight = {} /\ RegisterCash
    \/ inflight = {} /\ PayVerifyCash
    \/ inflight = {} /\ GetTeamPayment
    \/ PayWrite
SpecTeamPay == InitTeamPay /\ [][NextTeamPay]_vars

\* the role handlers; a user is named by its id, also as an email
UserIds == 1..(Len(users) + 1)

CreateUser ==
    /\ Len(users) < MaxUsers
    /\ \E u \in Callers, e \in UserIds, role \in UserRole :
          require_role(ADMIN, users[u]) /\ Apply(create_admin_user(u, e, role), {})

UpdateUserRole ==
    \E u \in Callers, i \in UserIds, role \in UserRole :
        require_role(ADMIN, users[u]) /\ Apply(update_user_role_endpoint(u, i, role), {})

CreateAmbassadorProfile ==
    \E u \in Callers, e \in UserIds :
        require_role(ADMIN, users[u])
            /\ Apply(create_ambassador_profile_for_user(u, e), {})

CreateRegistrationTeamProfile ==
    \E u \in Callers, e \in UserIds :
        require_role(ADMIN, users[u])
            /\ Apply(create_registration_team_profile_for_user(u, e), {})

GrantMultiRole ==
    \E u \in Callers, e \in UserIds, role \in UserRole :
        require_role(ADMIN, users[u]) /\ Apply(grant_multi_role_access(u, e, role), {})

\* The population of the role handlers: an admin, a member of the
\* registration team and one registered participant.
InitRoles ==
    /\ users = <<ADMIN, REGISTRATION_TEAM, PARTICIPANT>>
    /\ participants = <<[user_id |-> 3, team_id |-> NULL, is_team_lead |-> FALSE]>>
    /\ teams = <<>>
    /\ payments = <<>>
    /\ checkins = EmptyBag
    /\ inflight = {}
    /\ clock = 0
    /\ response = OK
    /\ notice = NoticeOf(Answer(OK))
    /\ smtp_up = TRUE

\* The role handlers, next to a participant's choice of a cash payment.
NextRoles ==
    \/ CreateUser
    \/ UpdateUserRole
    \/ CreateAmbassadorProfile
    \/ CreateRegistrationTeamProfile
    \/ GrantMultiRole
    \/ AdminGateDenies
    \/ SelectCash
    \/ PayWrite
SpecRoles == InitRoles /\ [][NextRoles]_vars

\* the two profile handlers as the only writers of roles, over accounts
\* that an admin creates, while the participant pays
NextProfiles ==
    \/ CreateUser
    \/ CreateAmbassadorProfile
    \/ CreateRegistrationTeamProfile
    \/ AdminGateDenies
    \/ SelectCash
    \/ PayWrite
SpecProfiles == InitRoles /\ [][NextProfiles]_vars

\* The doors of the event: two admins scan tickets, and the participant's
\* cash Payment has been verified by the ambassador.
InitDoor ==
    /\ users = <<ADMIN, ADMIN, AMBASSADOR, PARTICIPANT>>
    /\ participants = <<[user_id |-> 4, team_id |-> NULL, is_team_lead |-> FALSE]>>
    /\ teams = <<>>
    /\ payments = <<[NewPayment(1, NULL, CASH) EXCEPT
                        !.status = VERIFIED, !.verified_by = 3, !.verified_at = 1]>>
    /\ checkins = EmptyBag
    /\ inflight = {}
    /\ clock = 1
    /\ response = OK
    /\ notice = NoticeOf(Answer(OK))
    /\ smtp_up = TRUE

NextDoor == CheckIn \/ CheckInWrite \/ VerifyQr \/ AdminGateDenies
SpecDoor == InitDoor /\ [][NextDoor]_vars

\* the mail server goes down or comes back
SmtpChanges ==
    /\ smtp_up' = ~smtp_up
    /\ UNCHANGED <<users, participants, teams, payments, checkins, inflight, clock,
                   response, notice>>

\* The creation of payments and the four verify endpoints, as in
\* SpecVerify, with a mail server that can fail at any time.
NextNotify == NextVerify \/ SmtpChanges
SpecNotify == InitPay /\ [][NextNotify]_vars

\* ----------------------------------------------------------------- claims
PaymentsOf(participant_id) ==
    {i \in DOMAIN payments : payments[i].participant_id = participant_id}

\* C1: every participant has at most one Payment, and a creation request
\* that reaches its INSERT when the participant already has a Payment is
\* answered with the conflict response (400) and adds no record.
C1_SecondCreateConflicts ==
    [][/\ \A p \in DOMAIN participants :
            Cardinality({i \in DOMAIN payments' : payments'[i].participant_id = p}) <= 1
       /\ \A r \in inflight \ inflight' :
            (r.kind = "pay" /\ PaymentsOf(r.pid) # {})
                => (response' = BAD_REQUEST /\ payments' = payments)]_vars

\* the edges of the payment state machine
AllowedEdge(before, after) ==
    \/ after.status = before.status
    \/ /\ before.payment_method = ONLINE
       /\ before.status = PENDING
       /\ after.status \in {VERIFIED, REJECTED}
    \/ /\ before.payment_method = CASH
       /\ before.status = PENDING_CASH
       /\ after.status = VERIFIED

\* C2: a verify operation changes a Payment's status only along
\* pending -> verified, pending -> rejected (online) and
\* pending_cash -> verified (cash); verified and rejected are terminal.
C2_VerifyFollowsEdges ==
    [][\A i \in DOMAIN payments : AllowedEdge(payments[i], payments'[i])]_vars

\* what C3 asks of the outcome o of a cash verification for participant p
CashPreconditionsKept(p, o) ==
    LET cash == {i \in PaymentsOf(p) : payments[i].payment_method = CASH}
        ready == {i \in cash : payments[i].status = PENDING_CASH}
    IN  /\ PaymentsOf(p) = {} => o.response # OK
        /\ (cash # {} /\ ready = {})
              => (o.response # OK /\ o.payments = payments)

\* C3: verify_cash fails for a participant without a Payment, and on a
\* cash Payment succeeds only in status pending_cash: in any other status
\* it fails and leaves status, verified_by and verified_at as they were
\* (both endpoints; an online Payment is C4's case).
C3_VerifyCashPreconditions ==
    \A u \in Callers, p \in ParticipantIds :
        /\ CashPreconditionsKept(p, ambassador_verify_cash_payment_endpoint(u, p))
        /\ CashPreconditionsKept(p, payments_verify_cash_payment_endpoint(u, p))

\* the outcome o refuses the request as invalid and leaves the payments
RefusedUnchanged(o) == o.response = BAD_REQUEST /\ o.payments = payments

\* C4: verify_cash on a participant whose Payment is online is answered
\* with the invalid-state error (400) and leaves the Payment as it was
\* (both endpoints).
C4_VerifyCashOnOnlineFails ==
    \A u \in Callers, p \in ParticipantIds :
        (\E i \in PaymentsOf(p) : payments[i].payment_method = ONLINE)
            => /\ RefusedUnchanged(ambassador_verify_cash_payment_endpoint(u, p))
               /\ RefusedUnchanged(payments_verify_cash_payment_endpoint(u, p))

HasVerifiedPayment(participant_id) ==
    \E i \in PaymentsOf(participant_id) : payments[i].status = VERIFIED

\* C5: a check-in adds a CheckIn record only for a participant whose
\* Payment is verified when the request is made; for a participant with no
\* Payment or one in another status the request is rejected and adds
\* nothing.
C5_CheckInNeedsVerifiedPayment ==
    /\ \A u \in Callers, q \in QRInputs, ev \in EventTypes :
          LET o == check_in_participant(u, q, ev)
          IN  IF q.json = "object" /\ HasVerifiedPayment(q.participant_id)
                THEN \A r \in o.started : r.pid = q.participant_id /\ r.event_type = ev
                ELSE o.response # OK /\ NoEffect(o)
    /\ \A r \in inflight :
          r.kind = "checkin" =>
              /\ HasVerifiedPayment(r.pid)
              /\ check_in_commit(r).checkins =
                    checkins (+) SetToBag({CheckInRow(r.pid, r.event_type)})

\* C5 happens: a participant with a verified Payment has been checked in.
C5_Witness ==
    /\ response = OK
    /\ \E p \in DOMAIN participants, ev \in EventTypes :
          BagIn(CheckInRow(p, ev), checkins) /\ HasVerifiedPayment(p)

\* C6: under interleaved joins no team has more than TEAM_MAX_SIZE members.
C6_ConcurrentJoinsKeepLimit ==
    \A t \in DOMAIN teams : current_members(t) <= TEAM_MAX_SIZE

\* what C7 asks of the outcome o of a registration that joins team t
JoinKeepsLimit(t, o) ==
    LET new == Len(participants) + 1
    IN  IF current_members(t) >= TEAM_MAX_SIZE
          THEN /\ join_team(teams[t].code).error = TEAM_FULL
               /\ o.response = SERVER_ERROR
               /\ o.started = {}
               /\ o.participants[new].team_id = NULL
               /\ \A p \in DOMAIN participants : o.participants[p] = participants[p]
          ELSE /\ join_team(teams[t].code).error = NONE
               /\ \E r \in o.started : r.kind = "join" /\ r.pid = new /\ r.team = t

\* C7: with one request at a time every team has at most TEAM_MAX_SIZE
\* members; a join of a team with TEAM_MAX_SIZE or more members fails with
\* "Team is full" and leaves the participant without a team, and any other
\* join attaches the participant to the team and does not touch the
\* team-lead flag.
C7_SequentialJoinsKeepLimit ==
    /\ \A t \in DOMAIN teams : current_members(t) <= TEAM_MAX_SIZE
    /\ inflight = {} =>
          \A t \in DOMAIN teams :
              /\ JoinKeepsLimit(t, public_registration(Len(users) + 1, FALSE, NONE,
                                                       teams[t].code, NULL))
              /\ \A u \in Callers, m \in PaymentMethod :
                    require_role(REGISTRATION_TEAM, users[u])
                        => JoinKeepsLimit(t, register_participant_manually(
                                                 u, Len(users) + 1, FALSE, NONE,
                                                 teams[t].code, m, NULL))
    /\ \A r \in inflight :
          r.kind = "join" =>
              /\ join_team_commit(r).response =
                    (IF r.op = "manual" /\ db_value(r.method) = NONE
                       THEN SERVER_ERROR ELSE OK)
              /\ join_team_commit(r).participants =
                    [participants EXCEPT ![r.pid].team_id = r.team]
              /\ ~participants[r.pid].is_team_lead

\* C7 happens: a team is full, one of its members joined it (is no lead),
\* and a later join was refused and left its participant without a team.
C7_Witness ==
    /\ response = SERVER_ERROR
    /\ inflight = {}
    /\ \E t \in DOMAIN teams :
          /\ current_members(t) = TEAM_MAX_SIZE
          /\ \E p \in DOMAIN participants :
                participants[p].team_id = t /\ ~participants[p].is_team_lead
    /\ participants[Len(participants)].team_id = NULL

\* the outcome turned a Payment into verified or rejected
MovedToFinal(o) ==
    \E i \in DOMAIN o.payments :
        /\ o.payments[i].status \in {VERIFIED, REJECTED}
        /\ i \in DOMAIN payments => payments[i].status # o.payments[i].status

\* C8: an operation that moves a Payment into verified or rejected is
\* invoked by an ambassador or an admin; a participant or a member of the
\* registration team cannot make a Payment verified.
C8_OnlyAmbassadorOrAdminVerifies ==
    \A u \in Callers :
        users[u] \notin {AMBASSADOR, ADMIN} =>
            /\ \A p \in ParticipantIds :
                  /\ ~MovedToFinal(ambassador_verify_cash_payment_endpoint(u, p))
                  /\ ~MovedToFinal(payments_verify_cash_payment_endpoint(u, p))
            /\ \A i \in PaymentIds, a \in BOOLEAN :
                  /\ ~MovedToFinal(admin_verify_online_payment(u, i, a))
                  /\ ~MovedToFinal(payments_verify_online_payment_endpoint(u, i, a))
            /\ \A i \in PaymentIds, st \in PaymentStatus \cup {NONE} :
                  ~MovedToFinal(update_payment(u, i, st))
            /\ \A r \in inflight :
                  (r.kind = "pay" /\ r.by = u) => ~MovedToFinal(create_payment_commit(r))

\* the answer the admin gate owes caller u: an admin is let through, any
\* other role is answered 403 and nothing is done
AdminGateKept(u, o) ==
    IF users[u] = ADMIN
      THEN o.response # FORBIDDEN
      ELSE o.response = FORBIDDEN /\ NoEffect(o)

\* C9: an admin-only operation answers every caller who is a participant,
\* an ambassador or a member of the registration team with 403 and does
\* nothing; an admin is let through.
C9_AdminOnlyDeniesOthers ==
    /\ allowed_roles(ADMIN) = {ADMIN}
    /\ \A u \in Callers :
          /\ \A i \in PaymentIds, a \in BOOLEAN :
                /\ AdminGateKept(u, admin_verify_online_payment(u, i, a))
                /\ AdminGateKept(u, payments_verify_online_payment_endpoint(u, i, a))
          /\ \A i \in PaymentIds, st \in PaymentStatus \cup {NONE} :
                AdminGateKept(u, update_payment(u, i, st))
          /\ \A q \in QRInputs :
                /\ AdminGateKept(u, verify_qr_endpoint(u, q))
                /\ \A ev \in EventTypes :
                      AdminGateKept(u, check_in_participant(u, q, ev))

\* C9 happens: a request was answered 403 (in the payment handlers only the
\* admin gate can refuse a role) and every other role has an account.
C9_Witness ==
    /\ response = FORBIDDEN
    /\ \A role \in UserRole \ {ADMIN} : \E u \in Callers : users[u] = role

\* C10: an admin passes the role check for every required role and the role
\* check of the participant endpoints: no gated handler answers an admin
\* with 403.
C10_AdminPassesEveryGate ==
    /\ \A required_role \in UserRole : require_role(required_role, ADMIN)
    /\ ADMIN \in participant_allowed_roles
    /\ \A u \in Callers :
          users[u] = ADMIN =>
              /\ select_cash_payment(u).response # FORBIDDEN
              /\ upload_payment_receipt(u).response # FORBIDDEN
              /\ \A p \in ParticipantIds :
                    /\ ambassador_verify_cash_payment_endpoint(u, p).response # FORBIDDEN
                    /\ payments_verify_cash_payment_endpoint(u, p).response # FORBIDDEN
                    /\ register_cash_payment_manual(u, p).response # FORBIDDEN
              /\ \A i \in PaymentIds :
                    /\ admin_verify_online_payment(u, i, TRUE).response # FORBIDDEN
                    /\ update_payment(u, i, VERIFIED).response # FORBIDDEN
              /\ \A e \in Emails, m \in PaymentMethod :
                    register_participant_manually(u, e, FALSE, NONE, NULL, m, NULL).response
                        # FORBIDDEN

\* C10 happens: an admin went through the ambassador's or the registration
\* team's gate and verified a cash Payment.
C10_Witness ==
    \E i \in DOMAIN payments :
        /\ payments[i].payment_method = CASH
        /\ payments[i].status = VERIFIED
        /\ payments[i].verified_by # NULL
        /\ users[payments[i].verified_by] = ADMIN

\* the outcome o of a handler behind the gate for `required` answers caller
\* u as the role check decides: 403 and nothing done exactly when refused
GateDecides(required, u, o) ==
    IF require_role(required, users[u])
      THEN o.response # FORBIDDEN
      ELSE o.response = FORBIDDEN /\ NoEffect(o)

RolesKept(o) ==
    /\ DOMAIN users \subseteq DOMAIN o.users
    /\ \A u \in DOMAIN users : o.users[u] = users[u]

\* the outcome o of a role operation requested by caller u: refused with
\* 403 and nothing done unless u is an admin
RoleChangeGated(u, o) ==
    users[u] # ADMIN => (o.response = FORBIDDEN /\ NoEffect(o))

\* C12: the role of a user changes only through update-user-role,
\* create-user, create-ambassador-profile, create-registration-team-profile
\* or grant-multi-role-access called by a user whose role is admin: these
\* refuse every other caller and do nothing, and no other handler changes
\* the role of a user, whoever calls it.
C12_OnlyAdminChangesRoles ==
    /\ \A u \in Callers :
          /\ \A e \in UserIds :
                /\ RoleChangeGated(u, create_ambassador_profile_for_user(u, e))
                /\ RoleChangeGated(u, create_registration_team_profile_for_user(u, e))
                /\ \A role \in UserRole :
                      /\ RoleChangeGated(u, create_admin_user(u, e, role))
                      /\ RoleChangeGated(u, update_user_role_endpoint(u, e, role))
                      /\ RoleChangeGated(u, grant_multi_role_access(u, e, role))
          /\ RolesKept(select_cash_payment(u))
          /\ RolesKept(upload_payment_receipt(u))
          /\ \A p \in ParticipantIds :
                /\ RolesKept(register_cash_payment_manual(u, p))
                /\ RolesKept(ambassador_verify_cash_payment_endpoint(u, p))
                /\ RolesKept(payments_verify_cash_payment_endpoint(u, p))
          /\ \A i \in PaymentIds :
                /\ \A a \in BOOLEAN :
                      /\ RolesKept(admin_verify_online_payment(u, i, a))
                      /\ RolesKept(payments_verify_online_payment_endpoint(u, i, a))
                /\ \A st \in PaymentStatus \cup {NONE} :
                      RolesKept(update_payment(u, i, st))
          /\ \A q \in QRInputs, ev \in EventTypes :
                RolesKept(check_in_participant(u, q, ev))
          /\ \A e \in Emails, m \in PaymentMethod :
                RolesKept(register_participant_manually(u, e, FALSE, NONE, NULL, m, NULL))
    /\ \A e \in Emails :
          /\ RolesKept(public_registration(e, FALSE, NONE, NULL, NULL))
          /\ \A m \in PaymentMethod : RolesKept(select_payment_method(e, m))
    /\ \A r \in inflight :
          r.kind = "pay" => RolesKept(create_payment_commit(r))

\* C12 happens: an admin has turned the participant into an ambassador, and
\* the latest request, by a caller who is no admin, was refused.
C12_Witness ==
    /\ response = FORBIDDEN
    /\ users[3] = AMBASSADOR
    /\ \E u \in Callers : users[u] = ADMIN

\* the outcome o holds a Payment whose status was set by the override: it
\* is neither the status the Payment had nor the initial status of a new one
StatusOverridden(o) ==
    \E i \in DOMAIN o.payments :
        o.payments[i].status #
            (IF i \in DOMAIN payments
               THEN payments[i].status
               ELSE initial_status(o.payments[i].payment_method))

\* C13: the unconditional status override (update_payment_status, and the
\* assignment of update_payment) runs only for a caller whose role is
\* admin: no request of a participant, an ambassador or a member of the
\* registration team has a status set by it.
C13_OverrideOnlyByAdmin ==
    \A u \in Callers :
        users[u] # ADMIN =>
            /\ \A i \in PaymentIds, st \in PaymentStatus \cup {NONE} :
                  ~StatusOverridden(update_payment(u, i, st))
            /\ \A r \in inflight :
                  (r.kind = "pay" /\ r.by = u) => ~StatusOverridden(create_payment_commit(r))

\* every Payment the outcome o moves to verified comes with the ticket of
\* its participant and an attempted "payment verified" email
TicketAndNotice(o) ==
    \A i \in DOMAIN payments :
        (payments[i].status # VERIFIED /\ o.payments[i].status = VERIFIED)
            => (o.qr = payments[i].participant_id /\ o.email = MAIL_VERIFIED)

\* C14: whenever verify_cash or verify_online(approve) moves a Payment to
\* verified, the same request generates the participant's QR ticket and
\* attempts the notification email, on every endpoint that verifies.
C14_VerificationIssuesTicket ==
    \A u \in Callers :
        /\ \A p \in ParticipantIds :
              /\ TicketAndNotice(ambassador_verify_cash_payment_endpoint(u, p))
              /\ TicketAndNotice(payments_verify_cash_payment_endpoint(u, p))
        /\ \A i \in PaymentIds :
              /\ TicketAndNotice(admin_verify_online_payment(u, i, TRUE))
              /\ TicketAndNotice(payments_verify_online_payment_endpoint(u, i, TRUE))

\* the outcome o tried an email that did not go out
SendFailed(o) == o.email # NONE /\ ~o.delivered

\* C15: a notification that fails to go out neither blocks nor undoes a
\* verification: the request is still answered with success, and the
\* Payment is committed as verified (verify_cash, verify_online approving)
\* or rejected (verify_online rejecting).
C15_FailedEmailKeepsVerification ==
    \A u \in Callers :
        /\ \A p \in ParticipantIds :
              LET o == ambassador_verify_cash_payment_endpoint(u, p)
              IN  SendFailed(o) =>
                      /\ o.response = OK
                      /\ \E i \in PaymentsOf(p) :
                            /\ payments[i].status = PENDING_CASH
                            /\ o.payments[i].status = VERIFIED
                            /\ o.payments[i].verified_by = u
        /\ \A i \in PaymentIds, a \in BOOLEAN :
              LET o == admin_verify_online_payment(u, i, a)
              IN  SendFailed(o) =>
                      /\ o.response = OK
                      /\ o.payments[i].status = IF a THEN VERIFIED ELSE REJECTED

\* C15 happens: the "payment verified" email of the latest request did not
\* go out, the request was answered with success and the participant's
\* Payment is verified.
C15_Witness ==
    /\ notice.email = MAIL_VERIFIED
    /\ ~notice.delivered
    /\ response = OK
    /\ notice.qr # NULL
    /\ HasVerifiedPayment(notice.qr)

\* what C16 asks of the outcome o of verify_online on Payment i by admin u
VerifyOnlineKept(u, i, approve, o) ==
    IF i \notin DOMAIN payments
      THEN o.response = NOT_FOUND /\ o.payments = payments
    ELSE IF payments[i].payment_method = ONLINE
      THEN /\ o.response = OK
           /\ IF approve
                 THEN /\ o.payments[i].status = VERIFIED
                      /\ o.payments[i].verified_by = u
                      /\ o.payments[i].verified_at = now
                 ELSE o.payments[i].status = REJECTED
    ELSE o.response # OK /\ o.payments = payments

\* C16: verify_online by an admin on an online Payment sets it to verified
\* with the admin and the time recorded (approve) or to rejected (not
\* approve); on a missing Payment it fails with NotFound (404), and on a
\* cash Payment it fails and leaves the Payment as it was (both endpoints).
C16_VerifyOnlineContract ==
    \A u \in Callers :
        users[u] = ADMIN =>
            \A i \in PaymentIds, a \in BOOLEAN :
                /\ VerifyOnlineKept(u, i, a, admin_verify_online_payment(u, i, a))
                /\ VerifyOnlineKept(u, i, a, payments_verify_online_payment_endpoint(u, i, a))

\* C17: a Payment created by select-payment-method, select-cash,
\* upload-receipt or register-manual (any creation that does not verify
\* in the same request, as register-cash does) starts in the status its
\* method determines: pending for online, pending_cash for cash.
C17_InitialStatusFollowsMethod ==
    [][\A i \in DOMAIN payments' \ DOMAIN payments :
          \/ \E r \in inflight \ inflight' : r.op = "register_cash_payment_manual"
          \/ payments'[i].status =
                (IF payments'[i].payment_method = ONLINE THEN PENDING ELSE PENDING_CASH)]_vars

\* C18: the checkins table holds at most one record per (participant,
\* event_type) pair, also when two check-ins of the same pair run at the
\* same time, and a check-in of a pair that has a record is rejected and
\* adds nothing.
C18_OneCheckInPerPair ==
    /\ \A p \in DOMAIN participants, ev \in EventTypes :
          CopiesIn(CheckInRow(p, ev), checkins) <= 1
    /\ \A u \in Callers, p \in DOMAIN participants, ev \in EventTypes :
          (users[u] = ADMIN /\ BagIn(CheckInRow(p, ev), checkins))
              => /\ check_in_participant(u, Ticket(p), ev).response = BAD_REQUEST
                 /\ NoEffect(check_in_participant(u, Ticket(p), ev))

\* no two rows of a teams table share a code
CodesUnique(table) ==
    \A t1 \in DOMAIN table, t2 \in DOMAIN table :
        t1 # t2 => table[t1].code # table[t2].code

\* C19: no two teams share a join code: the loop of create_team ends on a
\* code that no team has, and the codes stay distinct in every reachable
\* state, also when two create_team calls that drew the same code run at
\* the same time.
C19_TeamCodesUnique ==
    /\ CodesUnique(teams)
    /\ \A n \in TeamNames :
          \A code \in drawn_codes(TRUE, n) :
              \A t \in DOMAIN teams : teams[t].code # code
    /\ \A r \in inflight :
          r.kind = "team" => CodesUnique(create_team_commit(r).teams)

\* C19 happens: a create_team is about to insert a code that a team with
\* another name took after the loop had found it free.
C19_Witness ==
    \E r \in inflight :
        /\ r.kind = "team"
        /\ \E t \in DOMAIN teams : teams[t].code = r.code /\ teams[t].name # r.name

\* the outcome of a registration whose join found no team: the request
\* fails, no request goes on, no team exists that did not before, every
\* participant keeps team reference and lead flag, and the participant
\* just created has no team and leads none
JoinFoundNoTeam(o) ==
    /\ o.response = SERVER_ERROR
    /\ o.started = {}
    /\ o.teams = teams
    /\ \A p \in DOMAIN participants : o.participants[p] = participants[p]
    /\ \A p \in DOMAIN o.participants \ DOMAIN participants :
          o.participants[p].team_id = NULL /\ ~o.participants[p].is_team_lead

\* C20: join_team with a code that no team has fails with the error of the
\* failed lookup ("Invalid team code"), changes no participant's team
\* reference or team-lead flag and creates no team, on the public and on
\* the manual registration path.
C20_UnknownCodeChangesNothing ==
    \A c \in TeamCodes :
        get_team_by_code(c) = NULL =>
            /\ join_team(c).error = INVALID_CODE
            /\ JoinFoundNoTeam(public_registration(Len(users) + 1, FALSE, NONE, c, NULL))
            /\ \A u \in Callers, m \in MethodInputs :
                  require_role(REGISTRATION_TEAM, users[u])
                      => JoinFoundNoTeam(register_participant_manually(
                                             u, Len(users) + 1, FALSE, NONE, c, m, NULL))

\* C20 happens: no team exists, so the code of the join that just failed
\* matched none; the participant of that registration has no team.
C20_Witness ==
    /\ response = SERVER_ERROR
    /\ inflight = {}
    /\ teams = <<>>
    /\ participants # <<>>
    /\ participants[Len(participants)].team_id = NULL
    /\ ~participants[Len(participants)].is_team_lead

\* C21: a Payment is created with the team reference its participant has
\* at that moment (NULL when the participant has no team), whichever
\* handler creates it.
C21_PaymentTeamFollowsParticipant ==
    [][\A i \in DOMAIN payments' \ DOMAIN payments :
          payments'[i].team_id = participants'[payments'[i].participant_id].team_id]_vars

\* C22: every Payment whose status is verified names the user who verified
\* it and the time of the verification, whichever handler made it verified.
C22_VerifiedHasVerifier ==
    \A i \in DOMAIN payments :
        payments[i].status = VERIFIED
            => /\ payments[i].verified_by \in DOMAIN users
               /\ payments[i].verified_at # NULL
               /\ payments[i].verified_at <= clock

\* C22 happens: a Payment was created verified by register-cash, its
\* verifier a member of the registration team, and a later request was
\* answered with "not found".
C22_Witness ==
    /\ response = NOT_FOUND
    /\ \E i \in DOMAIN payments :
          /\ payments[i].status = VERIFIED
          /\ payments[i].verified_by # NULL
          /\ users[payments[i].verified_by] = REGISTRATION_TEAM
          /\ payments[i].verified_at = 1

\* the checks of ticket validation: the payload is a set of claims that
\* holds every required claim, names this event and carries a true
\* validity flag
TicketPasses(q) ==
    /\ q.json = "object"
    /\ RequiredFields \subseteq q.fields
    /\ q.event = EVENT
    /\ "valid" \in q.fields
    /\ q.valid

\* C23: verify_qr_code reports valid = false for every payload that lacks a
\* required claim, names another event, or whose validity flag is false or
\* absent, and valid = true only for a payload that passes the three
\* checks.
C23_TicketValidation ==
    \A q \in QRInputs :
        verify_qr_code(q) = (IF TicketPasses(q) THEN "valid" ELSE "invalid")

\* C24: verify_qr_code answers every input with valid = true or valid =
\* false and never raises, so that check-in and verify-qr answer a ticket
\* that is no valid ticket with an invalid-ticket result (400 on check-in,
\* a body with valid = false on verify-qr) and never with a 500.
C24_TicketValidationTotal ==
    /\ \A q \in QRInputs :
          /\ verify_qr_code(q) \in {"valid", "invalid"}
          /\ \A u \in Callers :
                (users[u] = ADMIN /\ ~TicketPasses(q))
                    => /\ verify_qr_endpoint(u, q).response = OK
                       /\ \A ev \in EventTypes :
                             check_in_participant(u, q, ev).response = BAD_REQUEST
    /\ response # SERVER_ERROR

\* the members of a team whose team-lead flag is set
leads_of(team_id) ==
    {p \in DOMAIN participants :
        participants[p].team_id = team_id /\ participants[p].is_team_lead}

\* C25: create_team attaches the leader to the new team with the team-lead
\* flag set and changes no other participant; over any sequence of
\* registrations every team has exactly one member whose team-lead flag is
\* set, and no participant without a team has the flag.
C25_OneLeadPerTeam ==
    /\ \A t \in DOMAIN teams : Cardinality(leads_of(t)) = 1
    /\ \A p \in DOMAIN participants :
          participants[p].is_team_lead => participants[p].team_id \in DOMAIN teams
    /\ \A r \in inflight :
          (r.kind = "team" /\ ~create_team_fails(r.name, r.code))
              => LET o == create_team_commit(r)
                 IN  /\ Len(o.teams) = Len(teams) + 1
                     /\ o.participants[r.pid].team_id = Len(o.teams)
                     /\ o.participants[r.pid].is_team_lead
                     /\ \A p \in DOMAIN participants \ {r.pid} :
                           o.participants[p] = participants[p]

\* C25 happens: two teams exist, one of them has a second member who joined
\* by code, and each has its one lead.
C25_Witness ==
    /\ Len(teams) = 2
    /\ inflight = {}
    /\ \E t \in DOMAIN teams :
          /\ current_members(t) = 2
          /\ Cardinality(leads_of(t)) = 1

\* the outcome o of a registration with a new email whose team step failed:
\* an error is answered, and the User and the Participant of the request
\* are in the tables, the Participant without a team
TeamStepFailed(o) ==
    /\ o.response = SERVER_ERROR
    /\ o.started = {}
    /\ o.users = Append(users, PARTICIPANT)
    /\ o.participants =
          Append(participants,
                 [user_id |-> Len(users) + 1, team_id |-> NULL, is_team_lead |-> FALSE])
    /\ o.teams = teams

\* a registration with the email of user u is refused as already registered
AlreadyRegistered(u) ==
    \A new \in BOOLEAN, n \in TeamNames \cup {NONE}, c \in TeamCodes \cup {NULL} :
        \A code \in drawn_codes(new, n) :
            /\ public_registration(u, new, n, c, code).response = BAD_REQUEST
            /\ NoEffect(public_registration(u, new, n, c, code))

\* C26: a registration whose team step fails (a code that no team has, a
\* full team, a team name that is taken) answers an error and leaves the
\* User and the Participant it created in the tables, the Participant
\* without a team; a later registration with the same email is refused as
\* already registered.
C26_FailedTeamStepKeepsUser ==
    /\ \A c \in TeamCodes :
          (\/ get_team_by_code(c) = NULL
           \/ current_members(get_team_by_code(c)) >= TEAM_MAX_SIZE)
              => /\ TeamStepFailed(public_registration(Len(users) + 1, FALSE, NONE, c, NULL))
                 /\ \A u \in Callers :
                       require_role(REGISTRATION_TEAM, users[u])
                           => TeamStepFailed(register_participant_manually(
                                                 u, Len(users) + 1, FALSE, NONE, c, CASH, NULL))
    /\ \A r \in inflight :
          (r.kind = "team" /\ \E t \in DOMAIN teams : teams[t].name = r.name)
              => /\ create_team_commit(r).response = SERVER_ERROR
                 /\ SameTables(create_team_commit(r), Answer(OK))
                 /\ r.pid \in DOMAIN participants
                 /\ participants[r.pid].team_id = NULL
                 /\ participants[r.pid].user_id \in DOMAIN users
    /\ \A p \in DOMAIN participants : AlreadyRegistered(participants[p].user_id)

\* C26 happens: the second registration ended in an error for its team step
\* (the one team is not full, so its code matched none or its team name
\* was taken), and its participant is in the table without a team.
C26_Witness ==
    /\ response = SERVER_ERROR
    /\ inflight = {}
    /\ Len(teams) = 1
    /\ current_members(1) = 1
    /\ Len(participants) = 2
    /\ participants[2].team_id = NULL
    /\ participants[2].user_id \in DOMAIN users

\* the Payment of the participant registered under an email, NULL for none
payment_of_email(email) ==
    IF get_user_by_email(email) = NULL \/ get_participant_by_user_id(email) = NULL
      THEN NULL
      ELSE get_payment_by_participant(get_participant_by_user_id(email))

member_is_paid(member) ==
    \E i \in DOMAIN payments :
        payments[i].participant_id = member /\ payments[i].status = VERIFIED

\* C28: can_team_participate is true exactly when every member of the team
\* has a verified Payment, and get_team_payment_status counts every member
\* as paid or pending, the paid ones being the members whose Payment is
\* verified, however and whenever the Payment was created.
C28_TeamStatusCountsVerified ==
    \A t \in DOMAIN teams :
        /\ can_team_participate(t) <=> \A m \in team_members(t) : member_is_paid(m)
        /\ get_team_payment_status(t).paid_members
              + get_team_payment_status(t).pending_members
              = get_team_payment_status(t).total_members
        /\ get_team_payment_status(t).total_members = Cardinality(team_members(t))
        /\ get_team_payment_status(t).paid_members
              = Cardinality({m \in team_members(t) : member_is_paid(m)})

\* C29: the payment status of a team is returned to a caller whose own
\* participant row refers to that team, and refused with 403 to every other
\* caller who has a participant row, whatever the ids of users and
\* participants are; the request changes nothing.
C29_TeamStatusForMembersOnly ==
    \A u \in Callers, t \in TeamIds :
        get_participant_by_user_id(u) # NULL
            => /\ get_team_payment(u, t).response =
                     (IF participants[get_participant_by_user_id(u)].team_id = t
                        THEN OK ELSE FORBIDDEN)
               /\ NoEffect(get_team_payment(u, t))

\* the users of a table whose role is admin
admins(table) == {u \in DOMAIN table : table[u] = ADMIN}

\* the outcome o of a profile request by an admin for the user `target`,
\* who is to get `role`: an admin target keeps its role and nothing is
\* written, any other target gets the role, and no other user changes
ProfileKeepsAdmins(o, target, role) ==
    /\ o.response = OK
    /\ IF users[target] = ADMIN
         THEN NoEffect(o)
         ELSE o.users = [users EXCEPT ![target] = role]
    /\ admins(o.users) = admins(users)

\* C30: create-ambassador-profile and create-registration-team-profile
\* leave a target whose role is admin as it is and write nothing, and give
\* any other target the role ambassador or registration_team; the set of
\* admin users is the same after either, so no sequence of the two reduces
\* the number of admins.
C30_ProfilesKeepAdmins ==
    /\ \A u \in Callers, target \in DOMAIN users :
          users[u] = ADMIN
              => /\ ProfileKeepsAdmins(create_ambassador_profile_for_user(u, target),
                                       target, AMBASSADOR)
                 /\ ProfileKeepsAdmins(create_registration_team_profile_for_user(u, target),
                                       target, REGISTRATION_TEAM)
    /\ users[1] = ADMIN

\* C30 happens: the member of the registration team and the participant
\* have been made ambassadors, a second admin account exists, and the
\* first admin is still an admin.
C30_Witness ==
    /\ response = OK
    /\ users[1] = ADMIN
    /\ users[2] = AMBASSADOR
    /\ users[3] = AMBASSADOR
    /\ Cardinality(admins(users)) = 2

====
